---- MODULE Spec2Model ----
(***************************************************************************)
(* Model of the profile-payload installation engine of mdmb                *)
(* (internal/device/profiles.go, internal/device/mdmclient.go): one        *)
(* simulated device, its profile store, payload references and keychain,   *)
(* and the install / removal passes that drive SCEP identities and the     *)
(* MDM enrollment.  A pass is single threaded; it is modelled step by      *)
(* step (one step per payload, one step per keychain delete of a removal)  *)
(* so that the order of its store writes and collaborator calls is         *)
(* visible.                                                                *)
(***************************************************************************)
EXTENDS Integers, Sequences, FiniteSets, TLC

VARIABLES
    profiles,     \* bucket "profiles": key -> profile bytes
    refs,         \* bucket "profile_payload_refs": key -> reference string
    keychain,     \* the device's keychain: UUID -> keychain item
    device,       \* Device.MDMProfileIdentifier, Device.MDMIdentityKeychainUUID
    mdmClient,    \* Device.mdmClient, the lazily cached MDM client
    nextUUID,     \* number of keychain UUIDs generated so far
    pc,           \* position of the running pass
    inst,         \* installProfile's locals: pb, fromMDM, orderedPayloads, index, results
    rm,           \* RemoveProfile's locals: profile, orderedPayloads, index, caller
    kci,          \* removeSCEPPayload's locals: the three loaded keychain items
    faults,       \* failures of a collaborator call or of a store write so far
    lastErr,      \* error value returned by the last finished InstallProfile / RemoveProfile
    trace,        \* history: store writes and collaborator calls of the current pass
    before        \* history: the stores as they were when a profile's install was called

vars == <<profiles, refs, keychain, device, mdmClient, nextUUID, pc, inst, rm, kci,
          faults, lastErr, trace, before>>

----------------------------------------------------------------------------
(* Bounds of the model *)

\* keychain UUIDs that NewKeychainItem can still generate
MaxItems == 6

\* failures (of a checkin call, of the SCEP enrollment, of a store write) in one behaviour
MaxFaults == 1

\* calls of the methods of the Profile Stores in one behaviour
MaxOps == 3

\* the largest PayloadContent.KeySize of a SCEP payload
MaxKeySize == 1100

\* the largest PayloadContent.KeyUsage of a SCEP payload
MaxKeyUsage == 65535

----------------------------------------------------------------------------
(* Program constants *)

PayloadRequiresNetwork == 1
PayloadRequiresIdentities == 2

UDID == "d1"
ProfileIds == {"pA", "pB"}
NoErr == "nil"
Panic == "panic: index out of range"

----------------------------------------------------------------------------
(* Payloads and profile documents (cfgprofiles) *)

SCEPPayload(uuid, keyType) ==
    [PayloadType |-> "com.apple.security.scep", PayloadUUID |-> uuid,
     PayloadIdentifier |-> "id." \o uuid, KeyType |-> keyType, KeySize |-> 0,
     IdentityCertificateUUID |-> "", SignMessage |-> FALSE, ServerURL |-> ""]

MDMPayload(uuid, identityUUID, signMessage, serverURL) ==
    [PayloadType |-> "com.apple.mdm", PayloadUUID |-> uuid,
     PayloadIdentifier |-> "id." \o uuid, KeyType |-> "", KeySize |-> 0,
     IdentityCertificateUUID |-> identityUUID, SignMessage |-> signMessage,
     ServerURL |-> serverURL]

OtherPayload(uuid) ==
    [PayloadType |-> "com.apple.wifi.managed", PayloadUUID |-> uuid,
     PayloadIdentifier |-> "id." \o uuid, KeyType |-> "", KeySize |-> 0,
     IdentityCertificateUUID |-> "", SignMessage |-> FALSE, ServerURL |-> ""]

NilPayload ==
    [PayloadType |-> "", PayloadUUID |-> "", PayloadIdentifier |-> "", KeyType |-> "",
     KeySize |-> 0,
     IdentityCertificateUUID |-> "", SignMessage |-> FALSE, ServerURL |-> ""]

IsSCEP(pl) == pl.PayloadType = "com.apple.security.scep"
IsMDM(pl) == pl.PayloadType = "com.apple.mdm"

S1 == SCEPPayload("s1", "RSA")
S2 == SCEPPayload("s2", "")
M1 == MDMPayload("m1", "s1", TRUE, "https://mdm/1")
M2 == MDMPayload("m2", "s1", TRUE, "https://mdm/2")
M3 == MDMPayload("m3", "s1", FALSE, "https://mdm/1")
O1 == OtherPayload("o1")
O2 == OtherPayload("o2")
\* MDM payloads whose IdentityCertificateUUID names no payload, a payload of another
\* type, and the MDM payload itself
M4 == MDMPayload("m4", "zz", TRUE, "https://mdm/1")
M5 == MDMPayload("m5", "o1", TRUE, "https://mdm/1")
M6 == MDMPayload("m6", "m6", TRUE, "https://mdm/1")

\* the payload sets of the profile documents that are installed
PayloadSets == { {S1, O1}, {S2}, {S1, M1} }

\* the payload sets of the documents of the validation specification
ValidatePayloadSets == { {S1, M1}, {M1, M2}, {M2}, {S1, M3}, {O1} }

\* the payload sets of the documents of the identity reference specification
ReferencePayloadSets == { {S1, M1, O1}, {S1, M4}, {O1, M5}, {M6} }

\* the payload sets of the documents with payloads of unknown types
UnknownPayloadSets == { {O1, S1, O2}, {O1, S1, M1} }

\* the payload sets of the documents that are installed and removed again
RoundTripPayloadSets == { {S1, O1}, {S1, M1}, {O1} }

\* the payload set of the documents of the ordering specification
OrderPayloadSets == { {S1, S2, M1, O1} }

\* every document order of a payload set
Orders(S) ==
    { q \in [1..Cardinality(S) -> S] : \A i, j \in 1..Cardinality(S) : i # j => q[i] # q[j] }

PayloadContents(sets) == UNION { Orders(S) : S \in sets }

\* profile bytes: a well-formed document, the empty byte string, or bytes that do not parse
EmptyPb == [PayloadIdentifier |-> "", PayloadContent |-> <<>>, wellFormed |-> FALSE]
BadPb == [PayloadIdentifier |-> "?", PayloadContent |-> <<>>, wellFormed |-> FALSE]
ProfileBytesOf(ids, sets) ==
    { [PayloadIdentifier |-> id, PayloadContent |-> c, wellFormed |-> TRUE] :
        id \in ids, c \in PayloadContents(sets) }
ProfileBytes == ProfileBytesOf(ProfileIds, PayloadSets)
OrderProfileBytes == ProfileBytesOf({"pA"}, OrderPayloadSets)
ValidateProfileBytes == ProfileBytesOf(ProfileIds, ValidatePayloadSets)
ReferenceProfileBytes == ProfileBytesOf({"pA"}, ReferencePayloadSets)
UnknownProfileBytes == ProfileBytesOf({"pA"}, UnknownPayloadSets)
RoundTripProfileBytes == ProfileBytesOf({"pA"}, RoundTripPayloadSets)

LenBytes(pb) == IF pb = EmptyPb THEN 0 ELSE 1

\* plist.Unmarshal: the error value
Unmarshal(pb) == IF pb.wellFormed THEN NoErr ELSE "plist: unmarshal error"

\* Profile.MDMPayloads
MDMPayloads(p) == SelectSeq(p.PayloadContent, IsMDM)

----------------------------------------------------------------------------
(* The key-value store (bbolt buckets) and the profile store *)

BucketGet(bucket, key, empty) == IF key \in DOMAIN bucket THEN bucket[key] ELSE empty

\* a put of an empty value deletes the key
BucketPutOrDelete(bucket, key, value, empty) ==
    IF value = empty
    THEN [k \in DOMAIN bucket \ {key} |-> bucket[k]]
    ELSE [k \in DOMAIN bucket \cup {key} |-> IF k = key THEN value ELSE bucket[k]]

\* fmt.Sprintf("%s_%s", ps.ID, id); ps.ID is the UDID of a device, which holds no "_",
\* so that the key is modelled as the pair
ProfileKey(psID, id) == <<psID, id>>

\* fmt.Sprintf("%s_%s_%s_%s", profileID, pld.PayloadIdentifier, pld.PayloadUUID, ekey)
PayloadRefKey(profileID, pld, ekey) ==
    <<profileID, pld.PayloadIdentifier, pld.PayloadUUID, ekey>>

(* The methods of a ProfileStore ps, given ps.ID; the stores of all devices share the
   two buckets of one database. *)

\* ProfileStore.Load: the profile and the error value
psLoad(psID, id) ==
    LET pb == BucketGet(profiles, ProfileKey(psID, id), EmptyPb)
    IN  IF LenBytes(pb) = 0
        THEN [p |-> EmptyPb, err |-> "missing or zero-length profile"]
        ELSE [p |-> pb, err |-> Unmarshal(pb)]

\* ProfileStore.persistProfile: the error value of the checks, and the bucket after a
\* write that reaches the store
psPersistProfile(psID, pb, profileID) ==
    IF LenBytes(pb) = 0
    THEN [err |-> "empty profile", profiles |-> profiles]
    ELSE [err |-> NoErr,
          profiles |-> BucketPutOrDelete(profiles, ProfileKey(psID, profileID), pb, EmptyPb)]

\* ProfileStore.removeProfile
psRemoveProfile(psID, profileID) ==
    BucketPutOrDelete(profiles, ProfileKey(psID, profileID), EmptyPb, EmptyPb)

\* ProfileStore.savePayloadRefString: the error value of the check, and the bucket
\* after a write that reaches the store; the key does not hold ps.ID
psSavePayloadRefString(psID, profileID, pld, ekey, value) ==
    IF value = ""
    THEN [err |-> "no payload ref value to save", refs |-> refs]
    ELSE [err |-> NoErr,
          refs |-> BucketPutOrDelete(refs, PayloadRefKey(profileID, pld, ekey), value, "")]

\* ProfileStore.loadPayloadRefString: the closure handed to DB.View returns nil, so
\* the error value is nil whether or not the key is stored; a missing key reads as ""
psLoadPayloadRefString(psID, profileID, pld, ekey) ==
    [s |-> BucketGet(refs, PayloadRefKey(profileID, pld, ekey), ""), err |-> NoErr]

\* ProfileStore.removePayloadRefString
psRemovePayloadRefString(psID, profileID, pld, ekey) ==
    BucketPutOrDelete(refs, PayloadRefKey(profileID, pld, ekey), "", "")

\* a ListUUIDs that does not select the keys by the prefix of the store
psListAllUUIDs(psID) == { k[2] : k \in DOMAIN profiles }

\* ProfileStore.ListUUIDs: the keys with the prefix ps.ID + "_", prefix stripped
psListUUIDs(psID) == { k[2] : k \in { kk \in DOMAIN profiles : kk[1] = psID } }

(* The same methods of device.SystemProfileStore(), the store of the device UDID *)

Load(id) == psLoad(UDID, id)
persistProfile(pb, profileID) == psPersistProfile(UDID, pb, profileID).profiles
removeProfile(profileID) == psRemoveProfile(UDID, profileID)
savePayloadRefString(profileID, pld, ekey, value) ==
    psSavePayloadRefString(UDID, profileID, pld, ekey, value).refs
loadPayloadRefString(profileID, pld, ekey) == psLoadPayloadRefString(UDID, profileID, pld, ekey)
removePayloadRefString(profileID, pld, ekey) ==
    psRemovePayloadRefString(UDID, profileID, pld, ekey)
ListUUIDs == psListUUIDs(UDID)

----------------------------------------------------------------------------
(* The keychain *)

ClassKey == "key"
ClassCertificate == "certificate"
ClassIdentity == "identity"

KeychainItem(class, keyUUID, certUUID) ==
    [Class |-> class, IdentityKeyUUID |-> keyUUID, IdentityCertificateUUID |-> certUUID]

NilItem == [Class |-> "", IdentityKeyUUID |-> "", IdentityCertificateUUID |-> ""]

\* the UUID NewKeychainItem generates for the n-th item
NewUUID(n) == "kc" \o ToString(n)

\* LoadKeychainItem: the item and the error value
LoadKeychainItem(uuid) ==
    IF uuid \in DOMAIN keychain
    THEN [item |-> keychain[uuid], err |-> NoErr]
    ELSE [item |-> NilItem, err |-> "keychain item not found"]

\* KeychainItem.Save / KeychainItem.Delete when the write reaches the store
KeychainSave(kc, uuid, item) ==
    [u \in DOMAIN kc \cup {uuid} |-> IF u = uuid THEN item ELSE kc[u]]
KeychainDelete(kc, uuid) == [u \in DOMAIN kc \ {uuid} |-> kc[u]]

\* the load chain identity -> key -> certificate shared by loadIdentityFromKeychain,
\* loadOrDeleteMDMIdentity and removeSCEPPayload: the three UUIDs and the error value
LoadIdentityChain(uuid) ==
    LET id == LoadKeychainItem(uuid)
        key == LoadKeychainItem(id.item.IdentityKeyUUID)
        cert == LoadKeychainItem(id.item.IdentityCertificateUUID)
    IN  [id |-> uuid, key |-> id.item.IdentityKeyUUID,
         cert |-> id.item.IdentityCertificateUUID,
         err |-> IF id.err # NoErr THEN id.err
                 ELSE IF key.err # NoErr THEN key.err
                 ELSE cert.err]

----------------------------------------------------------------------------
(* The MDM client (mdmclient.go) *)

\* an MDMClient: its MDM payload and the keychain UUID of the identity whose key and
\* certificate it holds ("" when none was loaded)
MDMClientOf(mdmPld, identity) == [MDMPayload |-> mdmPld, Identity |-> identity, isNil |-> FALSE]
NilClient == [MDMPayload |-> NilPayload, Identity |-> "", isNil |-> TRUE]

\* MDMClient.loadIdentityFromKeychain: the error value
loadIdentityFromKeychain(uuid) ==
    IF uuid = "" THEN "invalid keychain UUID" ELSE LoadIdentityChain(uuid).err

\* NewMDMClient2 (called newMDMClientUsingPayload by installMDMPayload): client and error
NewMDMClient2(dev, mdmPld) ==
    LET err == loadIdentityFromKeychain(dev.MDMIdentityKeychainUUID)
    IN  [c |-> MDMClientOf(mdmPld, IF err = NoErr THEN dev.MDMIdentityKeychainUUID ELSE ""),
         err |-> err]

\* a test of line 71 that lets every payload through
SignMessageAssumed(mdmPld) == FALSE

\* line 71 of enroll2: the payload does not ask for signed messages
NotSignMessage(mdmPld) == ~mdmPld.SignMessage

\* an enroll2 that records the profile identifier before the checkin calls are made
enroll2RecordsFirst(c, profileID, authErr, tokenErr) ==
    IF c.MDMPayload = NilPayload
    THEN [err |-> "no MDM payload", calls |-> <<>>, id |-> device.MDMProfileIdentifier]
    ELSE IF NotSignMessage(c.MDMPayload)
    THEN [err |-> "non-SignMessage (mTLS) enrollment not supported", calls |-> <<>>,
          id |-> device.MDMProfileIdentifier]
    ELSE IF authErr # NoErr
    THEN [err |-> authErr, calls |-> <<"Authenticate">>, id |-> profileID]
    ELSE IF tokenErr # NoErr
    THEN [err |-> tokenErr, calls |-> <<"Authenticate", "TokenUpdate">>, id |-> profileID]
    ELSE [err |-> NoErr, calls |-> <<"Authenticate", "TokenUpdate">>, id |-> profileID]

\* MDMClient.enroll2 (called enroll by installMDMPayload), given what the two checkin
\* calls answer: the error value, the checkin calls made, and MDMProfileIdentifier after
enroll2(c, profileID, authErr, tokenErr) ==
    IF c.MDMPayload = NilPayload
    THEN [err |-> "no MDM payload", calls |-> <<>>, id |-> device.MDMProfileIdentifier]
    ELSE IF NotSignMessage(c.MDMPayload)
    THEN [err |-> "non-SignMessage (mTLS) enrollment not supported", calls |-> <<>>,
          id |-> device.MDMProfileIdentifier]
    ELSE IF authErr # NoErr
    THEN [err |-> authErr, calls |-> <<"Authenticate">>, id |-> device.MDMProfileIdentifier]
    ELSE IF tokenErr # NoErr
    THEN [err |-> tokenErr, calls |-> <<"Authenticate", "TokenUpdate">>,
          id |-> device.MDMProfileIdentifier]
    ELSE [err |-> NoErr, calls |-> <<"Authenticate", "TokenUpdate">>, id |-> profileID]

\* NewMDMClient: client and error; the client is returned non-nil with the error
NewMDMClient(dev) ==
    LET idErr == IF dev.MDMIdentityKeychainUUID # ""
                 THEN LoadIdentityChain(dev.MDMIdentityKeychainUUID).err
                 ELSE NoErr
        identity == IF dev.MDMIdentityKeychainUUID # "" /\ idErr = NoErr
                    THEN dev.MDMIdentityKeychainUUID ELSE ""
        ld == Load(dev.MDMProfileIdentifier)
        mdmPlds == MDMPayloads(ld.p)
    IN  IF idErr # NoErr THEN [c |-> MDMClientOf(NilPayload, ""), err |-> idErr]
        ELSE IF dev.MDMProfileIdentifier = "" THEN [c |-> MDMClientOf(NilPayload, identity), err |-> NoErr]
        ELSE IF ld.err # NoErr THEN [c |-> MDMClientOf(NilPayload, identity), err |-> ld.err]
        ELSE IF Len(mdmPlds) # 1
        THEN [c |-> MDMClientOf(NilPayload, identity),
              err |-> "enrollment profile must contain an MDM payload"]
        ELSE [c |-> MDMClientOf(mdmPlds[1], identity), err |-> NoErr]

\* Device.MDMClient: the cached client is built on the first call only, and the error
\* of building it is returned by that call only
DeviceMDMClient ==
    IF mdmClient.isNil
    THEN NewMDMClient(device)
    ELSE [c |-> mdmClient, err |-> NoErr]

----------------------------------------------------------------------------
(* Validation and payload ordering (profiles.go) *)

\* a test of line 127 that lets a second MDM payload through
MoreThanTwoMDMPayloads(mdmPlds) == Len(mdmPlds) > 2

\* a test of line 131 that never finds the device enrolled
NeverEnrolled(fromMDM, dev) == FALSE

\* line 127: more than one MDM payload
TooManyMDMPayloads(mdmPlds) == Len(mdmPlds) > 1

\* line 131: an install that does not come from the MDM server, on an enrolled device
AlreadyEnrolled(fromMDM, dev) == fromMDM = FALSE /\ dev.MDMProfileIdentifier # ""

\* Device.ValidateProfileInstall: the error value, or a panic where the code indexes
\* an empty slice
ValidateProfileInstall(p, fromMDM) ==
    LET mdmPlds == MDMPayloads(p)
        ld == Load(device.MDMProfileIdentifier)
        mdmPldsOld == MDMPayloads(ld.p)
    IN  IF Len(mdmPlds) >= 1
        THEN IF TooManyMDMPayloads(mdmPlds)
             THEN "Profile may only contain one MDM payload"
             ELSE IF AlreadyEnrolled(fromMDM, device)
             THEN "device already enrolled, please unenroll first"
             ELSE IF fromMDM
             THEN IF ld.err # NoErr THEN ld.err
                  ELSE IF Len(mdmPlds) # 1 THEN "invalid existing MDM profile"
                  ELSE IF Len(mdmPldsOld) = 0 THEN Panic
                  ELSE IF mdmPlds[1].ServerURL # mdmPldsOld[1].ServerURL
                  THEN "MDM payload must contain same URL"
                  ELSE NoErr
             ELSE NoErr
        ELSE NoErr

\* flags that put a payload of an unknown type behind the SCEP and MDM payloads
PayloadRequiresFlagsUnknownLast(pl) ==
    IF IsSCEP(pl) THEN PayloadRequiresNetwork
    ELSE IF IsMDM(pl) THEN PayloadRequiresNetwork + PayloadRequiresIdentities
    ELSE 4

\* the flags of a payload; the bits of the two constants are disjoint, so that the
\* bitwise or of line 165 is their sum
PayloadRequiresFlags(pl) ==
    IF IsSCEP(pl) THEN PayloadRequiresNetwork
    ELSE IF IsMDM(pl) THEN PayloadRequiresNetwork + PayloadRequiresIdentities
    ELSE 0

payloadAndResult(pl) ==
    [CommonPayload |-> pl, PayloadRequiresFlags |-> PayloadRequiresFlags(pl),
     StringResult |-> ""]

\* a less function that leaves the payloads in document order
LessUnsorted(a, b, ascending) == FALSE

\* a less function that sorts a removal pass as an install pass is sorted
LessInstallOrder(a, b, ascending) == a.PayloadRequiresFlags < b.PayloadRequiresFlags

\* the less function handed to sort.SliceStable (lines 177-183)
Less(a, b, ascending) ==
    IF ascending
    THEN a.PayloadRequiresFlags > b.PayloadRequiresFlags
    ELSE a.PayloadRequiresFlags < b.PayloadRequiresFlags

\* sort.SliceStable: stable insertion sort under Less
RECURSIVE InsertStable(_, _, _)
InsertStable(x, s, ascending) ==
    IF s = <<>> THEN <<x>>
    ELSE IF Less(x, s[Len(s)], ascending)
    THEN Append(InsertStable(x, SubSeq(s, 1, Len(s) - 1), ascending), s[Len(s)])
    ELSE Append(s, x)

RECURSIVE SliceStable(_, _)
SliceStable(s, ascending) ==
    IF s = <<>> THEN <<>>
    ELSE InsertStable(s[Len(s)], SliceStable(SubSeq(s, 1, Len(s) - 1), ascending), ascending)

classifyAndSortProfilePayloads(p, ascending) ==
    SliceStable([i \in 1..Len(p.PayloadContent) |-> payloadAndResult(p.PayloadContent[i])],
                ascending)

\* a findpayloadAndResultByUUID that returns the first payload whatever its UUID
findpayloadAndResultFirst(plds, uuid) ==
    IF plds = <<>> THEN 0 ELSE 1

\* findpayloadAndResultByUUID: the index of the first record with that UUID, 0 for nil
findpayloadAndResultByUUID(plds, uuid) ==
    LET hits == { i \in 1..Len(plds) : plds[i].CommonPayload.PayloadUUID = uuid }
    IN  IF hits = {} THEN 0 ELSE CHOOSE i \in hits : \A j \in hits : i <= j

----------------------------------------------------------------------------
(* History and the locals of a pass *)

Ev(e, u) == [e |-> e, u |-> u]

IdleInst == [pb |-> EmptyPb, fromMDM |-> FALSE, orderedPayloads |-> <<>>, i |-> 1]
IdleRm == [p |-> EmptyPb, orderedPayloads |-> <<>>, i |-> 1, caller |-> ""]
IdleKci == [id |-> "", key |-> "", cert |-> "", stage |-> 0]

StoreErr == "bolt: write failed"

\* no install is remembered
NoSnapshot == [id |-> "", installed |-> FALSE, keychain |-> <<>>, refs |-> <<>>, ids |-> {}]

\* a collaborator call or a store write of this step fails (failed) or succeeds
Fault(failed) ==
    IF failed THEN faults < MaxFaults /\ faults' = faults + 1 ELSE UNCHANGED faults
AuthErrs == {NoErr, "authenticate failed"}
TokenErrs == {NoErr, "tokenUpdate failed"}
CheckoutErrs == {NoErr, "checkout failed"}

----------------------------------------------------------------------------
(* Initial state: a device that is not enrolled and has no profile installed.  Its
   database may hold, for a SCEP payload, the identity issued to it earlier: the
   Key, Certificate and Identity items of lines 305-325 and the payload reference
   of line 327. *)

Slots == {<<"pA", S1>>, <<"pA", S2>>, <<"pB", S1>>}

SlotUUID(class, slot) == class \o "." \o slot[1] \o "." \o slot[2].PayloadUUID

Init ==
    \E issued \in SUBSET Slots :
        /\ profiles = <<>>
        /\ refs = [k \in { PayloadRefKey(sl[1], sl[2], "keychain_identity") : sl \in issued }
                     |-> "I." \o k[1] \o "." \o k[3]]
        /\ keychain =
             [u \in UNION { { SlotUUID("K", sl), SlotUUID("C", sl), SlotUUID("I", sl) } :
                              sl \in issued }
                |-> LET sl == CHOOSE x \in issued :
                                 u \in { SlotUUID("K", x), SlotUUID("C", x), SlotUUID("I", x) }
                    IN  IF u = SlotUUID("K", sl) THEN KeychainItem(ClassKey, "", "")
                        ELSE IF u = SlotUUID("C", sl) THEN KeychainItem(ClassCertificate, "", "")
                        ELSE KeychainItem(ClassIdentity, SlotUUID("K", sl), SlotUUID("C", sl))]
        /\ device = [MDMProfileIdentifier |-> "", MDMIdentityKeychainUUID |-> ""]
        /\ mdmClient = NilClient
        /\ nextUUID = 0
        /\ faults = 0
        /\ pc = "idle"
        /\ inst = IdleInst
        /\ rm = IdleRm
        /\ kci = IdleKci
        /\ lastErr = NoErr
        /\ trace = <<>>
        /\ before = NoSnapshot

----------------------------------------------------------------------------
(* RemoveProfile *)

\* the pass that RemoveProfile(profileID) starts, after its Load succeeded
RemovalOf(p, caller) ==
    [p |-> p, orderedPayloads |-> classifyAndSortProfilePayloads(p, TRUE), i |-> 1,
     caller |-> caller]

\* RemoveProfile, lines 336-340: called by the user of the device
RemoveProfile(profileID) ==
    /\ pc = "idle"
    /\ trace' = <<Ev("RemoveProfile", profileID)>>
    /\ inst' = IdleInst
    /\ kci' = IdleKci
    /\ IF Load(profileID).err # NoErr
       THEN /\ lastErr' = Load(profileID).err
            /\ rm' = IdleRm
            /\ pc' = "done"
       ELSE /\ rm' = RemovalOf(Load(profileID).p, "user")
            /\ pc' = "remove"
            /\ UNCHANGED lastErr
    /\ UNCHANGED <<profiles, refs, keychain, device, mdmClient, nextUUID, faults>>

RmCur == rm.orderedPayloads[rm.i].CommonPayload
RmNext == [rm EXCEPT !.i = @ + 1]

\* a removal pass that leaves its loop at the first payload whose removal fails
RmStopsAfter(err) ==
    IF err # NoErr THEN [rm EXCEPT !.i = Len(rm.orderedPayloads) + 1] ELSE RmNext

\* RemoveProfile, lines 345-353: the error of a payload's removal is printed and the
\* loop goes on to the next payload
RmAfter(err) == RmNext

\* MDMClient.unenroll, given what the checkin call answers: MDMProfileIdentifier after
unenroll(checkoutErr) ==
    IF checkoutErr = NoErr THEN "" ELSE device.MDMProfileIdentifier

\* removeMDMPayload, lines 406-417, for the MDM payload the removal pass is at
removeMDMPayload(checkoutErr) ==
    /\ pc = "remove"
    /\ rm.i <= Len(rm.orderedPayloads)
    /\ IsMDM(RmCur)
    /\ mdmClient' = DeviceMDMClient.c
    /\ IF DeviceMDMClient.err # NoErr
       THEN /\ checkoutErr = NoErr
            /\ trace' = Append(trace, Ev("removeMDMPayload", RmCur.PayloadUUID))
            /\ UNCHANGED <<device, faults>>
       ELSE /\ Fault(checkoutErr # NoErr)
            /\ trace' = trace \o <<Ev("removeMDMPayload", RmCur.PayloadUUID),
                                   Ev("Unenroll", DeviceMDMClient.c.MDMPayload.PayloadUUID)>>
                              \o (IF checkoutErr = NoErr THEN <<Ev("Device.Save", "")>> ELSE <<>>)
            /\ device' = [device EXCEPT !.MDMProfileIdentifier = unenroll(checkoutErr)]
    /\ rm' = RmAfter(IF DeviceMDMClient.err # NoErr THEN DeviceMDMClient.err ELSE checkoutErr)
    /\ UNCHANGED <<profiles, refs, keychain, nextUUID, pc, inst, kci, lastErr>>

\* removeSCEPPayload, lines 363-381: the reference and the three items are loaded
removeSCEPPayloadLoad ==
    /\ pc = "remove"
    /\ rm.i <= Len(rm.orderedPayloads)
    /\ IsSCEP(RmCur)
    /\ LET refStr == loadPayloadRefString(rm.p.PayloadIdentifier, RmCur, "keychain_identity")
           chain == LoadIdentityChain(refStr.s)
       IN  IF refStr.err # NoErr \/ chain.err # NoErr
           THEN /\ rm' = RmAfter(IF refStr.err # NoErr THEN refStr.err ELSE chain.err)
                /\ UNCHANGED <<pc, kci>>
           ELSE /\ kci' = [id |-> chain.id, key |-> chain.key, cert |-> chain.cert, stage |-> 1]
                /\ pc' = "removeSCEP"
                /\ UNCHANGED rm
    /\ trace' = Append(trace, Ev("removeSCEPPayload", RmCur.PayloadUUID))
    /\ UNCHANGED <<profiles, refs, keychain, device, mdmClient, nextUUID, inst, faults, lastErr>>

\* the order of the three Delete calls of removeSCEPPayload, lines 383-396
DeleteOrder == <<"cert", "key", "id">>

\* removeSCEPPayload, lines 383-403: the next store write (a Delete of one of the
\* three items, then removePayloadRefString); a failed write ends the payload's removal
removeSCEPPayloadWrite(ok) ==
    /\ pc = "removeSCEP"
    /\ Fault(~ok)
    /\ IF ~ok
       THEN /\ pc' = "remove"
            /\ rm' = RmAfter(StoreErr)
            /\ kci' = IdleKci
            /\ UNCHANGED <<keychain, refs, trace>>
       ELSE IF kci.stage <= Len(DeleteOrder)
       THEN /\ keychain' = KeychainDelete(keychain, kci[DeleteOrder[kci.stage]])
            /\ trace' = Append(trace, Ev("Delete " \o DeleteOrder[kci.stage], RmCur.PayloadUUID))
            /\ kci' = [kci EXCEPT !.stage = @ + 1]
            /\ UNCHANGED <<refs, pc, rm>>
       ELSE /\ refs' = removePayloadRefString(rm.p.PayloadIdentifier, RmCur, "keychain_identity")
            /\ trace' = Append(trace, Ev("removePayloadRefString", RmCur.PayloadUUID))
            /\ pc' = "remove"
            /\ rm' = RmAfter(NoErr)
            /\ kci' = IdleKci
            /\ UNCHANGED keychain
    /\ UNCHANGED <<profiles, device, mdmClient, nextUUID, inst, lastErr>>

\* RemoveProfile, lines 354-356: a payload of an unknown type is only logged
removeUnknownPayload ==
    /\ pc = "remove"
    /\ rm.i <= Len(rm.orderedPayloads)
    /\ ~IsSCEP(RmCur) /\ ~IsMDM(RmCur)
    /\ rm' = RmNext
    /\ trace' = Append(trace, Ev("unknown payload type", RmCur.PayloadUUID))
    /\ UNCHANGED <<profiles, refs, keychain, device, mdmClient, nextUUID, pc, inst, kci,
                   faults, lastErr>>

\* RemoveProfile, line 359, and the return to the caller: installProfile (line 221)
\* drops the error value and goes on to sort and install the new profile's payloads
removeProfileDocument(ok) ==
    /\ pc = "remove"
    /\ rm.i > Len(rm.orderedPayloads)
    /\ Fault(~ok)
    /\ IF ok
       THEN /\ profiles' = removeProfile(rm.p.PayloadIdentifier)
            /\ trace' = Append(trace, Ev("removeProfile", rm.p.PayloadIdentifier))
       ELSE UNCHANGED <<profiles, trace>>
    /\ IF rm.caller = "installProfile"
       THEN /\ pc' = "install"
            /\ inst' = [inst EXCEPT !.orderedPayloads = classifyAndSortProfilePayloads(inst.pb, FALSE),
                                    !.i = 1]
            /\ UNCHANGED lastErr
       ELSE /\ pc' = "done"
            /\ lastErr' = IF ok THEN NoErr ELSE StoreErr
            /\ UNCHANGED inst
    /\ rm' = IdleRm
    /\ UNCHANGED <<refs, keychain, device, mdmClient, nextUUID, kci>>

----------------------------------------------------------------------------
(* installProfile *)

\* an installProfile that goes on after an error of its checks
ChecksNeverFail(err) == FALSE

\* lines 197-208: the error of a check is returned at once
ChecksFail(err) == err # NoErr

\* installProfile, lines 197-224, called by the user (fromMDM = FALSE) or on behalf of
\* the MDM server (fromMDM = TRUE): the checks, and the start of the removal of an
\* installed profile with the same identifier
installProfile(pb, fromMDM) ==
    /\ pc = "idle"
    /\ trace' = <<Ev("installProfile", pb.PayloadIdentifier)>>
    /\ kci' = IdleKci
    /\ LET err == IF LenBytes(pb) = 0 THEN "empty profile"
                  ELSE IF Unmarshal(pb) # NoErr THEN Unmarshal(pb)
                  ELSE ValidateProfileInstall(pb, fromMDM)
           matched == pb.PayloadIdentifier \in ListUUIDs /\ pb.PayloadIdentifier # ""
       IN  IF ChecksFail(err)
           THEN /\ lastErr' = err
                /\ pc' = IF err = Panic THEN "panicked" ELSE "done"
                /\ inst' = [IdleInst EXCEPT !.pb = pb, !.fromMDM = fromMDM]
                /\ rm' = IdleRm
           ELSE IF matched
           THEN /\ inst' = [IdleInst EXCEPT !.pb = pb, !.fromMDM = fromMDM]
                /\ IF Load(pb.PayloadIdentifier).err # NoErr
                   THEN /\ rm' = IdleRm
                        /\ pc' = "install"
                   ELSE /\ rm' = RemovalOf(Load(pb.PayloadIdentifier).p, "installProfile")
                        /\ pc' = "remove"
                /\ UNCHANGED lastErr
           ELSE /\ inst' = [pb |-> pb, fromMDM |-> fromMDM,
                            orderedPayloads |-> classifyAndSortProfilePayloads(pb, FALSE),
                            i |-> 1]
                /\ rm' = IdleRm
                /\ pc' = "install"
                /\ UNCHANGED lastErr
    /\ UNCHANGED <<profiles, refs, keychain, device, mdmClient, nextUUID, faults>>

InstCur == inst.orderedPayloads[inst.i].CommonPayload
InstId == inst.pb.PayloadIdentifier

\* an install pass that goes on to the next payload after an error
PassGoesOn(err) == FALSE

\* lines 231-233 and 250-252: the error of a payload's installation ends the pass
PassEnds(err) == err # NoErr

defaultRSAKeySize == 1024

\* an RSA private key of a number of bits; the nil key
RSAKey(bits) == [bits |-> bits]
NilKey == [bits |-> 0]

\* rsa.GenerateKey(rand, keySize), for a size that crypto/rsa generates
rsaGenerateKey(keySize) == [key |-> RSAKey(keySize), err |-> NoErr]

\* a keyFromSCEPProfilePayload that takes a KeySize of zero for a size
keyFromSCEPProfilePayloadZero(pl) ==
    IF pl.KeyType # "" /\ pl.KeyType # "RSA"
    THEN [key |-> NilKey, err |-> "only RSA keys supported"]
    ELSE rsaGenerateKey(IF pl.KeySize >= 0 THEN pl.KeySize ELSE defaultRSAKeySize)

\* keyFromSCEPProfilePayload: the key and the error value
keyFromSCEPProfilePayload(pl) ==
    IF pl.KeyType # "" /\ pl.KeyType # "RSA"
    THEN [key |-> NilKey, err |-> "only RSA keys supported"]
    ELSE rsaGenerateKey(IF pl.KeySize > 0 THEN pl.KeySize ELSE defaultRSAKeySize)

\* a test of line 289 that never reuses a stored identity
ReuseNever(existing) == FALSE

\* line 289: the test that decides that a stored identity is reused
ReuseExisting(existing) == existing.err = NoErr

\* what the SCEP server and the store answer to one run of lines 294-330
SCEPOutcomes == {"scepErr", "keyErr", "certErr", "idErr", "refErr", "ok"}

\* installSCEPPayload, lines 277-333: the result, the error value, the stores after,
\* the number of keychain items created, the calls made (with the line it logs when it
\* reuses an identity) and whether it went on to the SCEP enrollment
installSCEPPayload(profileID, pl, outcome) ==
    LET existing == loadPayloadRefString(profileID, pl, "keychain_identity")
        kKey == NewUUID(nextUUID + 1)
        kCert == NewUUID(nextUUID + 2)
        kID == NewUUID(nextUUID + 3)
        withKey == KeychainSave(keychain, kKey, KeychainItem(ClassKey, "", ""))
        withCert == KeychainSave(withKey, kCert, KeychainItem(ClassCertificate, "", ""))
        withID == KeychainSave(withCert, kID, KeychainItem(ClassIdentity, kKey, kCert))
        same == [result |-> "", err |-> NoErr, keychain |-> keychain, refs |-> refs,
                 created |-> 0, calls |-> <<>>, enrolls |-> TRUE]
        scep == <<Ev("scepNewPKCSReq", pl.PayloadUUID)>>
    IN  IF keyFromSCEPProfilePayload(pl).err # NoErr
        THEN [same EXCEPT !.err = keyFromSCEPProfilePayload(pl).err, !.enrolls = FALSE]
        ELSE IF ReuseExisting(existing)
        THEN [same EXCEPT !.result = existing.s, !.enrolls = FALSE,
                          !.calls = <<Ev("reusing existing uuid", existing.s)>>]
        ELSE IF outcome = "scepErr"
        THEN [same EXCEPT !.err = "PKCSReq request failed", !.calls = scep]
        ELSE IF outcome = "keyErr"
        THEN [same EXCEPT !.err = StoreErr, !.calls = scep, !.created = 1]
        ELSE IF outcome = "certErr"
        THEN [same EXCEPT !.err = StoreErr, !.calls = scep \o <<Ev("Save key", kKey)>>,
                          !.keychain = withKey, !.created = 2]
        ELSE IF outcome = "idErr"
        THEN [same EXCEPT !.err = StoreErr,
                          !.calls = scep \o <<Ev("Save key", kKey), Ev("Save cert", kCert)>>,
                          !.keychain = withCert, !.created = 3]
        ELSE IF outcome = "refErr"
        THEN [same EXCEPT !.err = StoreErr,
                          !.calls = scep \o <<Ev("Save key", kKey), Ev("Save cert", kCert),
                                              Ev("Save id", kID)>>,
                          !.keychain = withID, !.created = 3]
        ELSE [same EXCEPT !.result = kID,
                          !.calls = scep \o <<Ev("Save key", kKey), Ev("Save cert", kCert),
                                              Ev("Save id", kID),
                                              Ev("savePayloadRefString", pl.PayloadUUID)>>,
                          !.keychain = withID, !.created = 3,
                          !.refs = savePayloadRefString(profileID, pl, "keychain_identity", kID)]

\* installProfile, lines 230-237: the SCEP payload the install pass is at
installSCEPStep(outcome) ==
    /\ pc = "install"
    /\ inst.i <= Len(inst.orderedPayloads)
    /\ IsSCEP(InstCur)
    /\ LET r == installSCEPPayload(InstId, InstCur, outcome)
           err == IF r.err # NoErr THEN r.err
                  ELSE IF r.result = "" THEN "no result from scep payload install"
                  ELSE NoErr
       IN  /\ nextUUID + r.created <= MaxItems
           /\ IF r.enrolls THEN Fault(outcome # "ok")
              ELSE outcome = "ok" /\ UNCHANGED faults
           /\ keychain' = r.keychain
           /\ refs' = r.refs
           /\ nextUUID' = nextUUID + r.created
           /\ trace' = trace \o <<Ev("installSCEPPayload", InstCur.PayloadUUID)>> \o r.calls
           /\ IF PassEnds(err)
              THEN /\ lastErr' = err
                   /\ pc' = "done"
                   /\ UNCHANGED inst
              ELSE /\ inst' = [inst EXCEPT !.orderedPayloads[inst.i].StringResult = r.result,
                                           !.i = @ + 1]
                   /\ UNCHANGED <<lastErr, pc>>
    /\ UNCHANGED <<profiles, device, mdmClient, rm, kci>>

\* installProfile, lines 238-253, with installMDMPayload (lines 262-274): the MDM
\* payload the install pass is at
installMDMStep(authErr, tokenErr) ==
    /\ pc = "install"
    /\ inst.i <= Len(inst.orderedPayloads)
    /\ IsMDM(InstCur)
    /\ LET ref == findpayloadAndResultByUUID(inst.orderedPayloads, InstCur.IdentityCertificateUUID)
           result == IF ref = 0 THEN "" ELSE inst.orderedPayloads[ref].StringResult
           dev1 == [device EXCEPT !.MDMIdentityKeychainUUID = result]
           c == NewMDMClient2(dev1, InstCur)
           e == enroll2(c.c, InstId, authErr, tokenErr)
           here == Ev("installMDMPayload", InstCur.PayloadUUID)
       IN  /\ authErr # NoErr => tokenErr = NoErr
           /\ IF ref # 0 /\ result # "" /\ c.err = NoErr /\ e.calls # <<>>
              THEN Fault(e.err # NoErr)
              ELSE authErr = NoErr /\ tokenErr = NoErr /\ UNCHANGED faults
           /\ IF ref = 0
              THEN /\ lastErr' = "could not find payload UUID"
                   /\ trace' = Append(trace, here)
                   /\ pc' = "done"
                   /\ UNCHANGED <<device, inst>>
              ELSE IF result = ""
              THEN /\ lastErr' = "referenced identity payload has no result keychain ID"
                   /\ trace' = Append(trace, here)
                   /\ pc' = "done"
                   /\ UNCHANGED <<device, inst>>
              ELSE IF c.err # NoErr
              THEN /\ lastErr' = c.err
                   /\ trace' = trace \o <<here, Ev("Device.Save", result)>>
                   /\ device' = dev1
                   /\ pc' = "done"
                   /\ UNCHANGED inst
              ELSE /\ trace' = trace \o <<here, Ev("Device.Save", result),
                                          Ev("enroll", InstCur.PayloadUUID)>>
                                \o [k \in 1..Len(e.calls) |-> Ev(e.calls[k], c.c.Identity)]
                                \o (IF e.err = NoErr THEN <<Ev("Device.Save", result)>> ELSE <<>>)
                   /\ device' = [dev1 EXCEPT !.MDMProfileIdentifier = e.id]
                   /\ IF PassEnds(e.err)
                      THEN /\ lastErr' = e.err
                           /\ pc' = "done"
                           /\ UNCHANGED inst
                      ELSE /\ inst' = [inst EXCEPT !.i = @ + 1]
                           /\ UNCHANGED <<lastErr, pc>>
    /\ UNCHANGED <<profiles, refs, keychain, mdmClient, nextUUID, rm, kci>>

\* installProfile, lines 254-256: a payload of an unknown type is only logged
installUnknownPayload ==
    /\ pc = "install"
    /\ inst.i <= Len(inst.orderedPayloads)
    /\ ~IsSCEP(InstCur) /\ ~IsMDM(InstCur)
    /\ inst' = [inst EXCEPT !.i = @ + 1]
    /\ trace' = Append(trace, Ev("unknown payload type", InstCur.PayloadUUID))
    /\ UNCHANGED <<profiles, refs, keychain, device, mdmClient, nextUUID, pc, rm, kci,
                   faults, lastErr>>

\* installProfile, line 259: the profile document is persisted
persistProfileDocument(ok) ==
    /\ pc = "install"
    /\ inst.i > Len(inst.orderedPayloads)
    /\ Fault(~ok)
    /\ IF ok
       THEN /\ profiles' = persistProfile(inst.pb, InstId)
            /\ trace' = Append(trace, Ev("persistProfile", InstId))
            /\ lastErr' = NoErr
       ELSE /\ lastErr' = StoreErr
            /\ UNCHANGED <<profiles, trace>>
    /\ pc' = "done"
    /\ UNCHANGED <<refs, keychain, device, mdmClient, nextUUID, inst, rm, kci>>

\* installProfile or RemoveProfile has returned to its caller: the locals of the pass
\* are gone and the device waits for the next call
Return ==
    /\ pc = "done"
    /\ pc' = "idle"
    /\ inst' = IdleInst
    /\ rm' = IdleRm
    /\ kci' = IdleKci
    /\ lastErr' = NoErr
    /\ trace' = <<>>
    /\ UNCHANGED <<profiles, refs, keychain, device, mdmClient, nextUUID, faults>>

----------------------------------------------------------------------------

\* the steps of the device, for the profile bytes and the profile identifiers that its
\* user and its MDM server hand to it
PayloadStep ==
    \/ \E outcome \in SCEPOutcomes : installSCEPStep(outcome) /\ UNCHANGED before
    \/ \E authErr \in AuthErrs, tokenErr \in TokenErrs :
           installMDMStep(authErr, tokenErr) /\ UNCHANGED before
    \/ installUnknownPayload /\ UNCHANGED before
    \/ \E ok \in BOOLEAN : persistProfileDocument(ok) /\ UNCHANGED before
    \/ \E checkoutErr \in CheckoutErrs : removeMDMPayload(checkoutErr) /\ UNCHANGED before
    \/ removeSCEPPayloadLoad /\ UNCHANGED before
    \/ \E ok \in BOOLEAN : removeSCEPPayloadWrite(ok) /\ UNCHANGED before
    \/ removeUnknownPayload /\ UNCHANGED before
    \/ \E ok \in BOOLEAN : removeProfileDocument(ok) /\ UNCHANGED before

Step(bytes, ids) ==
    \/ \E pb \in bytes, fromMDM \in BOOLEAN : installProfile(pb, fromMDM) /\ UNCHANGED before
    \/ \E profileID \in ids : RemoveProfile(profileID) /\ UNCHANGED before
    \/ PayloadStep
    \/ Return /\ UNCHANGED before

Next == Step(ProfileBytes \cup {EmptyPb, BadPb}, ProfileIds)

Spec == Init /\ [][Next]_vars

\* the same device, installing and removing one profile whose four payloads come in
\* every document order
NextOrder == Step(OrderProfileBytes, {"pA"})

SpecOrder == Init /\ [][NextOrder]_vars

\* the same device, handed the documents that validation and enrollment reject
NextValidate == Step(ValidateProfileBytes \cup {EmptyPb, BadPb}, ProfileIds)

SpecValidate == Init /\ [][NextValidate]_vars

\* the same device, handed the documents whose MDM payload names its identity payload
\* rightly or wrongly
NextReference == Step(ReferenceProfileBytes, {"pA"})

SpecReference == Init /\ [][NextReference]_vars

\* the same device, handed the documents with payloads of unknown types among the others
NextUnknown == Step(UnknownProfileBytes, {"pA"})

SpecUnknown == Init /\ [][NextUnknown]_vars

\* the stores of the device as they are, for the install of the profile id
Snapshot(id) ==
    [id |-> id, installed |-> FALSE, keychain |-> keychain, refs |-> refs, ids |-> ListUUIDs]

\* the same device, with the history of the last install: the stores are remembered
\* when InstallProfile is called for a profile that is not installed, the install is
\* marked when it returns without an error, and it is forgotten by every other call
NextRoundTrip ==
    \/ \E pb \in RoundTripProfileBytes, fromMDM \in BOOLEAN :
           /\ installProfile(pb, fromMDM)
           /\ before' = IF pb.PayloadIdentifier \in ListUUIDs THEN NoSnapshot
                         ELSE Snapshot(pb.PayloadIdentifier)
    \/ \E profileID \in {"pA"} :
           /\ RemoveProfile(profileID)
           /\ before' = IF before.installed /\ before.id = profileID THEN before
                         ELSE NoSnapshot
    \/ PayloadStep
    \/ /\ Return
       /\ before' = IF /\ trace[1] = Ev("installProfile", before.id)
                        /\ lastErr = NoErr
                        /\ before.id # ""
                        /\ ~before.installed
                     THEN [before EXCEPT !.installed = TRUE]
                     ELSE NoSnapshot

SpecRoundTrip == Init /\ [][NextRoundTrip]_vars

----------------------------------------------------------------------------
(* The Profile Stores of two devices on one database: the calls of the methods of
   ProfileStore in any order, each recorded in the history with its result *)

\* Device.UDID of the devices that share the database
UDIDs == {UDID, "d2"}

\* the profile bytes, profile identifiers and reference values handed to the stores
StoreDocA == [PayloadIdentifier |-> "pA", PayloadContent |-> <<S1>>, wellFormed |-> TRUE]
StoreDocB == [PayloadIdentifier |-> "pA", PayloadContent |-> <<S1, O1>>, wellFormed |-> TRUE]
StoreBytes == {StoreDocA, StoreDocB, EmptyPb}
StoreIds == ProfileIds
RefValues == {"", "kc1", "kc2"}

StoreEv(e, psID, id, pb, value, err) ==
    [e |-> e, u |-> psID, id |-> id, pb |-> pb, value |-> value, err |-> err]

InitStore ==
    /\ profiles = <<>>
    /\ refs = <<>>
    /\ keychain = <<>>
    /\ device = [MDMProfileIdentifier |-> "", MDMIdentityKeychainUUID |-> ""]
    /\ mdmClient = NilClient
    /\ nextUUID = 0
    /\ faults = 0
    /\ pc = "idle"
    /\ inst = IdleInst
    /\ rm = IdleRm
    /\ kci = IdleKci
    /\ lastErr = NoErr
    /\ trace = <<>>
    /\ before = NoSnapshot

StorePersistProfile(psID, pb, profileID) ==
    /\ Len(trace) < MaxOps
    /\ profiles' = psPersistProfile(psID, pb, profileID).profiles
    /\ trace' = Append(trace, StoreEv("persistProfile", psID, profileID, pb, "",
                                      psPersistProfile(psID, pb, profileID).err))
    /\ UNCHANGED <<refs, keychain, device, mdmClient, nextUUID, pc, inst, rm, kci, faults,
                   lastErr>>

StoreRemoveProfile(psID, profileID) ==
    /\ Len(trace) < MaxOps
    /\ profiles' = psRemoveProfile(psID, profileID)
    /\ trace' = Append(trace, StoreEv("removeProfile", psID, profileID, EmptyPb, "", NoErr))
    /\ UNCHANGED <<refs, keychain, device, mdmClient, nextUUID, pc, inst, rm, kci, faults,
                   lastErr>>

StoreSavePayloadRefString(psID, profileID, pld, value) ==
    /\ Len(trace) < MaxOps
    /\ refs' = psSavePayloadRefString(psID, profileID, pld, "keychain_identity", value).refs
    /\ trace' = Append(trace, StoreEv("savePayloadRefString", psID, profileID, EmptyPb, value,
                   psSavePayloadRefString(psID, profileID, pld, "keychain_identity", value).err))
    /\ UNCHANGED <<profiles, keychain, device, mdmClient, nextUUID, pc, inst, rm, kci, faults,
                   lastErr>>

StoreRemovePayloadRefString(psID, profileID, pld) ==
    /\ Len(trace) < MaxOps
    /\ refs' = psRemovePayloadRefString(psID, profileID, pld, "keychain_identity")
    /\ trace' = Append(trace, StoreEv("removePayloadRefString", psID, profileID, EmptyPb, "",
                                      NoErr))
    /\ UNCHANGED <<profiles, keychain, device, mdmClient, nextUUID, pc, inst, rm, kci, faults,
                   lastErr>>

NextStore ==
    \/ \E psID \in UDIDs, pb \in StoreBytes, profileID \in StoreIds :
           StorePersistProfile(psID, pb, profileID) /\ UNCHANGED before
    \/ \E psID \in UDIDs, profileID \in StoreIds :
           StoreRemoveProfile(psID, profileID) /\ UNCHANGED before
    \/ \E psID \in UDIDs, profileID \in StoreIds, value \in RefValues :
           StoreSavePayloadRefString(psID, profileID, S1, value) /\ UNCHANGED before
    \/ \E psID \in UDIDs, profileID \in StoreIds :
           StoreRemovePayloadRefString(psID, profileID, S1) /\ UNCHANGED before

SpecStore == InitStore /\ [][NextStore]_vars

----------------------------------------------------------------------------
(* The functions of the CSR construction, each called once with one input and
   recorded in the history with its result *)

\* PayloadContent.KeyType and PayloadContent.KeySize of the SCEP payloads handed to
\* keyFromSCEPProfilePayload: no size, and the sizes from 1024 bits on
KeyTypes == {"", "RSA", "EC", "rsa"}
KeySizes == (-2..0) \cup (defaultRSAKeySize..MaxKeySize)

InitKey == InitStore

keyFromSCEPProfilePayloadCall(keyType, keySize) ==
    /\ trace = <<>>
    /\ LET pl == [SCEPPayload("s1", keyType) EXCEPT !.KeySize = keySize]
       IN  trace' = <<[e |-> "keyFromSCEPProfilePayload", pl |-> pl,
                       key |-> keyFromSCEPProfilePayload(pl).key,
                       err |-> keyFromSCEPProfilePayload(pl).err]>>
    /\ UNCHANGED <<profiles, refs, keychain, device, mdmClient, nextUUID, pc, inst, rm, kci,
                   faults, lastErr>>

NextKey ==
    \E keyType \in KeyTypes, keySize \in KeySizes :
        keyFromSCEPProfilePayloadCall(keyType, keySize) /\ UNCHANGED before

SpecKey == InitKey /\ [][NextKey]_vars

\* the bytes of Go: and, or and the shifts of two bytes
RECURSIVE ByteAnd(_, _)
ByteAnd(x, y) ==
    IF x = 0 \/ y = 0 THEN 0
    ELSE (x % 2) * (y % 2) + 2 * ByteAnd(x \div 2, y \div 2)

RECURSIVE ByteOr(_, _)
ByteOr(x, y) ==
    IF x = 0 THEN y
    ELSE IF y = 0 THEN x
    ELSE (IF x % 2 = 1 \/ y % 2 = 1 THEN 1 ELSE 0) + 2 * ByteOr(x \div 2, y \div 2)

ByteShl(b, n) == (b * 2^n) % 256
ByteShr(b, n) == b \div 2^n

\* byte(x) of an int
ByteOf(x) == x % 256

\* a reverseBitsInAByte without its last exchange, of the neighbouring bits
reverseBitPairsInAByte(in) ==
    LET b1 == ByteOr(ByteShr(in, 4), ByteShl(in, 4))
        b2 == ByteOr(ByteAnd(ByteShr(b1, 2), 51), ByteAnd(ByteShl(b1, 2), 204))
    IN  b2

reverseBitsInAByte(in) ==
    LET b1 == ByteOr(ByteShr(in, 4), ByteShl(in, 4))
        b2 == ByteOr(ByteAnd(ByteShr(b1, 2), 51), ByteAnd(ByteShl(b1, 2), 204))
        b3 == ByteOr(ByteAnd(ByteShr(b2, 1), 85), ByteAnd(ByteShl(b2, 1), 170))
    IN  b3

\* the two loops of asn1BitLength, from byte i and bit bit on
RECURSIVE asn1BitLengthFrom(_, _, _, _)
asn1BitLengthFrom(bitString, i, bit, bitLen) ==
    IF i >= Len(bitString) THEN 0
    ELSE IF bit >= 8 THEN asn1BitLengthFrom(bitString, i + 1, 0, bitLen)
    ELSE IF ByteAnd(ByteShr(bitString[Len(bitString) - i], bit), 1) = 1 THEN bitLen
    ELSE asn1BitLengthFrom(bitString, i, bit + 1, bitLen - 1)

asn1BitLength(bitString) == asn1BitLengthFrom(bitString, 0, 0, Len(bitString) * 8)

\* asn1.Marshal of an asn1.BitString: the tag of a BIT STRING, the length, the number
\* of padding bits and the bytes
asn1MarshalBitString(bytes, bitLength) ==
    <<3, Len(bytes) + 1, (8 - (bitLength % 8)) % 8>> \o bytes

newKeyUsageExtension(keyUsage) ==
    LET a == <<reverseBitsInAByte(ByteOf(keyUsage)),
               reverseBitsInAByte(ByteOf(keyUsage \div 256))>>
        l == IF a[2] # 0 THEN 2 ELSE 1
        bitString == SubSeq(a, 1, l)
    IN  [Id |-> <<2, 5, 29, 15>>, Critical |-> TRUE,
         Value |-> asn1MarshalBitString(bitString, asn1BitLength(bitString)),
         err |-> NoErr]

\* x509.KeyUsageDigitalSignature
KeyUsageDigitalSignature == 1

\* PayloadContent.KeyUsage of the SCEP payloads handed to csrFromSCEPProfilePayload
KeyUsages == 0..MaxKeyUsage

\* a SCEP payload with one of the key usages is handed to csrFromSCEPProfilePayload
InitKeyUsage ==
    /\ profiles = <<>>
    /\ refs = <<>>
    /\ keychain = <<>>
    /\ device = [MDMProfileIdentifier |-> "", MDMIdentityKeychainUUID |-> ""]
    /\ mdmClient = NilClient
    /\ nextUUID = 0
    /\ pc = "idle"
    /\ inst = IdleInst
    /\ rm = IdleRm
    /\ kci = IdleKci
    /\ faults = 0
    /\ lastErr = NoErr
    /\ \E plcKeyUsage \in KeyUsages :
           trace = <<[e |-> "csrFromSCEPProfilePayload", KeyUsage |-> plcKeyUsage]>>
    /\ before = NoSnapshot

\* the key usage extension that csrFromSCEPProfilePayload puts into the request
csrFromSCEPProfilePayloadKeyUsage ==
    /\ Len(trace) = 1
    /\ trace[1].e = "csrFromSCEPProfilePayload"
    /\ LET plcKeyUsage == trace[1].KeyUsage
           keyUsage == IF plcKeyUsage # 0 THEN plcKeyUsage ELSE KeyUsageDigitalSignature
       IN  trace' = <<[e |-> "newKeyUsageExtension", KeyUsage |-> plcKeyUsage,
                       keyUsage |-> keyUsage, ext |-> newKeyUsageExtension(keyUsage)]>>
    /\ UNCHANGED <<profiles, refs, keychain, device, mdmClient, nextUUID, pc, inst, rm, kci,
                   faults, lastErr>>

NextKeyUsage == csrFromSCEPProfilePayloadKeyUsage /\ UNCHANGED before

SpecKeyUsage == InitKeyUsage /\ [][NextKeyUsage]_vars

----------------------------------------------------------------------------
(* Properties.  A step of a pass is read off the program counter and the history:
   a call of installProfile is the step that leaves "idle" with the call as the first
   event, the step of a payload is the step that extends the history. *)

\* the events a step appends to the history
NewEvents == SubSeq(trace', Len(trace) + 1, Len(trace'))

EventNames(s) == { s[k].e : k \in DOMAIN s }

\* installProfile is called; its arguments are inst'.pb and inst'.fromMDM
InstallCall == pc = "idle" /\ pc' # "idle" /\ trace'[1].e = "installProfile"

\* the install pass processes the SCEP payload / the MDM payload it is at
SCEPStep ==
    pc = "install" /\ inst.i <= Len(inst.orderedPayloads) /\ IsSCEP(InstCur) /\ trace' # trace
MDMStep ==
    pc = "install" /\ inst.i <= Len(inst.orderedPayloads) /\ IsMDM(InstCur) /\ trace' # trace

\* the reference 'keychain_identity' stored for the SCEP payload the pass is at
StoredRef == BucketGet(refs, PayloadRefKey(InstId, InstCur, "keychain_identity"), "")

\* C1: when the install pass processes a SCEP payload that has no stored
\* 'keychain_identity' reference, it calls the SCEP enrollment client, and when the
\* payload's step succeeds it has persisted exactly one new Key, Certificate and
\* Identity item (the Identity referencing the two), has stored the reference to the
\* new Identity UUID, and that non-empty UUID is the payload's result.
C1_NoReferenceEnrolls ==
    [][ (SCEPStep /\ StoredRef = "") =>
          /\ "scepNewPKCSReq" \in EventNames(NewEvents)
          /\ pc' = "install" =>
               LET r == inst'.orderedPayloads[inst.i].StringResult
                   new == DOMAIN keychain' \ DOMAIN keychain
               IN  /\ r # ""
                   /\ r \in new
                   /\ Cardinality(new) = 3
                   /\ keychain'[r].Class = ClassIdentity
                   /\ keychain'[r].IdentityKeyUUID \in new
                   /\ keychain'[r].IdentityCertificateUUID \in new
                   /\ keychain'[keychain'[r].IdentityKeyUUID].Class = ClassKey
                   /\ keychain'[keychain'[r].IdentityCertificateUUID].Class = ClassCertificate
                   /\ BucketGet(refs', PayloadRefKey(InstId, InstCur, "keychain_identity"), "") = r
      ]_vars

\* C2: whenever the install pass has reached the MDM payload, every SCEP payload of
\* the document has been installed before it, whatever the document order, and the
\* payload that the MDM payload references by IdentityCertificateUUID carries a
\* non-empty Identity UUID result.
C2_SCEPBeforeMDM ==
    \A k \in DOMAIN trace :
        trace[k].e = "installMDMPayload" =>
            /\ \A n \in DOMAIN inst.pb.PayloadContent :
                   IsSCEP(inst.pb.PayloadContent[n]) =>
                       \E j \in 1..(k - 1) :
                           trace[j] = Ev("installSCEPPayload", inst.pb.PayloadContent[n].PayloadUUID)
            /\ \A n \in DOMAIN inst.orderedPayloads :
                   inst.orderedPayloads[n].CommonPayload.PayloadUUID = trace[k].u =>
                       LET ref == findpayloadAndResultByUUID(inst.orderedPayloads,
                                      inst.orderedPayloads[n].CommonPayload.IdentityCertificateUUID)
                       IN  /\ ref # 0
                           /\ IsSCEP(inst.orderedPayloads[ref].CommonPayload)
                           /\ inst.orderedPayloads[ref].StringResult # ""

\* a finished install whose document declares the MDM payload first and the SCEP
\* payload it references last, and whose enrollment went through
C2_Witness ==
    /\ pc = "done"
    /\ lastErr = NoErr
    /\ Len(inst.pb.PayloadContent) = 4
    /\ IsMDM(inst.pb.PayloadContent[1])
    /\ inst.pb.PayloadContent[4] = S1
    /\ "TokenUpdate" \in EventNames(trace)

SCEPDeleteEvents == {"Delete cert", "Delete key", "Delete id", "removePayloadRefString"}

\* a removal pass of a profile that holds an MDM payload and a SCEP payload
RemovalOfMDMAndSCEP ==
    /\ pc \in {"remove", "removeSCEP"}
    /\ \E n \in DOMAIN rm.p.PayloadContent : IsMDM(rm.p.PayloadContent[n])
    /\ \E n \in DOMAIN rm.p.PayloadContent : IsSCEP(rm.p.PayloadContent[n])

C5_DeleteIdentityKeyCertificate ==
    \A k \in DOMAIN trace :
        /\ trace[k].e = "Delete key" =>
               \E j \in 1..(k - 1) : trace[j] = Ev("Delete id", trace[k].u)
        /\ trace[k].e = "Delete cert" =>
               \E j \in 1..(k - 1) : trace[j] = Ev("Delete key", trace[k].u)
        /\ trace[k].e = "removePayloadRefString" =>
               \E j \in 1..(k - 1) : trace[j] = Ev("Delete cert", trace[k].u)

\* C6: in every state of the keychain, between the store writes of a pass as well,
\* the Key UUID and the Certificate UUID of every stored Identity item resolve to a
\* stored Key item and a stored Certificate item.
C6_IdentityReferencesResolve ==
    \A u \in DOMAIN keychain :
        keychain[u].Class = ClassIdentity =>
            /\ keychain[u].IdentityKeyUUID \in DOMAIN keychain
            /\ keychain[keychain[u].IdentityKeyUUID].Class = ClassKey
            /\ keychain[u].IdentityCertificateUUID \in DOMAIN keychain
            /\ keychain[keychain[u].IdentityCertificateUUID].Class = ClassCertificate

\* C7: a call of installProfile with a profile of two or more MDM payloads returns
\* the validation error at once: the call's step ends the pass, and it has created or
\* deleted no keychain item, written no payload reference, removed no installed
\* profile and made no SCEP or checkin call.
C7_TwoMDMPayloadsRejected ==
    [][ (InstallCall /\ Len(MDMPayloads(inst'.pb)) >= 2) =>
          /\ pc' = "done"
          /\ lastErr' = "Profile may only contain one MDM payload"
          /\ trace' = <<Ev("installProfile", inst'.pb.PayloadIdentifier)>>
          /\ UNCHANGED <<profiles, refs, keychain, device, mdmClient, nextUUID>>
      ]_vars

\* a profile of two MDM payloads was rejected while a profile with the same identifier
\* is installed and its identity is in the keychain
C7_Witness ==
    /\ pc = "done"
    /\ lastErr = "Profile may only contain one MDM payload"
    /\ Len(MDMPayloads(inst.pb)) = 2
    /\ InstId \in ListUUIDs
    /\ DOMAIN keychain # {}
    /\ DOMAIN refs # {}

AlreadyEnrolledErr == "device already enrolled, please unenroll first"

\* C8 as stated: while MDMProfileIdentifier is non-empty, every call of installProfile
\* that does not come from the MDM server, with a profile that contains an MDM
\* payload, is rejected with the Already-Enrolled error.
C8_RejectedAlreadyEnrolled ==
    [][ (InstallCall /\ device.MDMProfileIdentifier # "" /\ ~inst'.fromMDM
            /\ Len(MDMPayloads(inst'.pb)) >= 1) =>
          (pc' = "done" /\ lastErr' = AlreadyEnrolledErr)
      ]_vars

\* C8 amended: while MDMProfileIdentifier is non-empty, every call of installProfile
\* that does not come from the MDM server is rejected with the Already-Enrolled error
\* when its profile contains exactly one MDM payload, and with the validation error
\* for more than one MDM payload when it contains several; hence an install pass that
\* does not come from the MDM server reaches an MDM payload, and so an enrollment,
\* only on a device whose MDMProfileIdentifier is empty.
C8_RejectedWhileEnrolled ==
    /\ [][ (InstallCall /\ device.MDMProfileIdentifier # "" /\ ~inst'.fromMDM) =>
             /\ Len(MDMPayloads(inst'.pb)) = 1 =>
                    (pc' = "done" /\ lastErr' = AlreadyEnrolledErr)
             /\ Len(MDMPayloads(inst'.pb)) > 1 =>
                    (pc' = "done" /\ lastErr' = "Profile may only contain one MDM payload")
         ]_vars
    /\ []((pc = "install" /\ ~inst.fromMDM /\ inst.i <= Len(inst.orderedPayloads)
             /\ IsMDM(InstCur)) => device.MDMProfileIdentifier = "")

\* an enrolled device has rejected, with Already-Enrolled, a profile with one MDM payload
C8_Witness ==
    /\ pc = "done"
    /\ lastErr = AlreadyEnrolledErr
    /\ ~inst.fromMDM
    /\ Len(MDMPayloads(inst.pb)) = 1
    /\ device.MDMProfileIdentifier # ""
    /\ device.MDMProfileIdentifier \in ListUUIDs

\* the enrollment profile recorded in MDMProfileIdentifier can be loaded and the
\* server URL of its MDM payload is the server URL of the MDM payload of pb
RecordedURLMatches(pb) ==
    LET ld == Load(device.MDMProfileIdentifier)
    IN  /\ ld.err = NoErr
        /\ Len(MDMPayloads(ld.p)) >= 1
        /\ MDMPayloads(ld.p)[1].ServerURL = MDMPayloads(pb)[1].ServerURL

\* C9: a call of installProfile on behalf of the MDM server, with a profile that
\* contains an MDM payload, passes validation only if the recorded enrollment profile
\* can be loaded and its MDM payload has the new payload's server URL; in every other
\* case validation returns an error value and the call ends with that error.
C9_FromMDMValidation ==
    [][ (InstallCall /\ inst'.fromMDM /\ Len(MDMPayloads(inst'.pb)) >= 1) =>
          /\ pc' \in {"install", "remove"} => RecordedURLMatches(inst'.pb)
          /\ ~RecordedURLMatches(inst'.pb) => (pc' = "done" /\ lastErr' \notin {NoErr, Panic})
      ]_vars

UnsupportedErr == "non-SignMessage (mTLS) enrollment not supported"

\* C10: when the MDM step of an install pass enrolls with an MDM payload whose
\* SignMessage is false, the enrollment fails with the Unsupported error, which ends
\* the pass, neither Authenticate nor TokenUpdate is called, and MDMProfileIdentifier
\* is left as it was (unset on a device that was not enrolled).
C10_NonSignMessageUnsupported ==
    [][ (MDMStep /\ ~InstCur.SignMessage /\ "enroll" \in EventNames(NewEvents)) =>
          /\ pc' = "done"
          /\ lastErr' = UnsupportedErr
          /\ EventNames(NewEvents) \cap {"Authenticate", "TokenUpdate"} = {}
          /\ device'.MDMProfileIdentifier = device.MDMProfileIdentifier
      ]_vars

\* the enrollment of a device that was not enrolled has failed with Unsupported
C10_Witness ==
    /\ pc = "done"
    /\ lastErr = UnsupportedErr
    /\ "enroll" \in EventNames(trace)
    /\ ~MDMPayloads(inst.pb)[1].SignMessage
    /\ device.MDMProfileIdentifier = ""
    /\ device.MDMIdentityKeychainUUID # ""

\* the checkin calls among the events of a step
IsCheckin(ev) == ev.e \in {"Authenticate", "TokenUpdate"}

\* C11: when the MDM step of an install pass enrolls with a SignMessage payload, it
\* calls Authenticate first and TokenUpdate only when Authenticate did not fail, both
\* with the identity the client loaded from the device's MDMIdentityKeychainUUID;
\* MDMProfileIdentifier becomes the profile id only when both calls succeeded, and
\* when either fails the step ends the pass with that error and MDMProfileIdentifier
\* as it was.
C11_EnrollAuthenticateThenTokenUpdate ==
    [][ (MDMStep /\ InstCur.SignMessage /\ "enroll" \in EventNames(NewEvents)) =>
          LET calls == SelectSeq(NewEvents, IsCheckin)
          IN  /\ Len(calls) \in {1, 2}
              /\ calls[1].e = "Authenticate"
              /\ Len(calls) = 2 => (calls[2].e = "TokenUpdate" /\ lastErr' # "authenticate failed")
              /\ \A k \in DOMAIN calls :
                     /\ calls[k].u = device'.MDMIdentityKeychainUUID
                     /\ calls[k].u \in DOMAIN keychain
                     /\ keychain[calls[k].u].Class = ClassIdentity
              /\ IF pc' = "install"
                 THEN /\ Len(calls) = 2
                      /\ lastErr' = NoErr
                      /\ device'.MDMProfileIdentifier = InstId
                 ELSE /\ pc' = "done"
                      /\ lastErr' = IF Len(calls) = 1 THEN "authenticate failed"
                                    ELSE "tokenUpdate failed"
                      /\ device'.MDMProfileIdentifier = device.MDMProfileIdentifier
      ]_vars

\* an enrollment of a device that was not enrolled has failed at TokenUpdate
C11_Witness ==
    /\ pc = "done"
    /\ lastErr = "tokenUpdate failed"
    /\ \E j, k \in DOMAIN trace :
           j < k /\ trace[j].e = "Authenticate" /\ trace[k].e = "TokenUpdate"
    /\ device.MDMProfileIdentifier = ""
    /\ device.MDMIdentityKeychainUUID \in DOMAIN keychain

\* the events of the removal pass and of the payload steps of an install pass
RemovalEvents ==
    {"removeMDMPayload", "Unenroll", "removeSCEPPayload", "removeProfile"} \cup SCEPDeleteEvents
SaveEvents == {"Save key", "Save cert", "Save id"}
InstallEvents ==
    {"installSCEPPayload", "installMDMPayload", "reusing existing uuid", "scepNewPKCSReq",
     "savePayloadRefString", "enroll", "Authenticate", "TokenUpdate", "persistProfile"}
        \cup SaveEvents

\* the number of events of a history whose name is in a set
Count(s, names) == Cardinality({ k \in DOMAIN s : s[k].e \in names })

\* the UUIDs of the SCEP payloads of a profile document
SCEPUUIDs(p) ==
    { p.PayloadContent[n].PayloadUUID : n \in { m \in DOMAIN p.PayloadContent :
                                                    IsSCEP(p.PayloadContent[m]) } }

\* an install, finished without any failed call or store write, of a profile whose
\* identifier was installed, which removed SCEP payloads identical to its own
ReinstallOfSameSCEP ==
    /\ pc = "done"
    /\ faults = 0
    /\ Len(trace) >= 1
    /\ trace[1].e = "installProfile"
    /\ "removeProfile" \in EventNames(trace)
    /\ SCEPUUIDs(inst.pb) # {}
    /\ { trace[k].u : k \in { j \in DOMAIN trace : trace[j].e = "removeSCEPPayload" } }
           = SCEPUUIDs(inst.pb)

\* C12: an install of a profile whose identifier is installed first runs the whole
\* removal pass of the installed profile (the three keychain items and the reference
\* of each of its SCEP payloads deleted) and only then installs the new payloads; when
\* the old and the new SCEP payloads are identical the install succeeds with as many
\* keychain items saved as were deleted, so that the number of keychain items is the
\* number after the first install.
C12_ReinstallKeepsItemCount ==
    ReinstallOfSameSCEP =>
        /\ \A j, k \in DOMAIN trace :
               (trace[j].e \in RemovalEvents /\ trace[k].e \in InstallEvents) => j < k
        /\ Count(trace, {"Delete id"}) = Cardinality(SCEPUUIDs(inst.pb))
        /\ Count(trace, {"Delete key"}) = Cardinality(SCEPUUIDs(inst.pb))
        /\ Count(trace, {"Delete cert"}) = Cardinality(SCEPUUIDs(inst.pb))
        /\ Count(trace, {"removePayloadRefString"}) = Cardinality(SCEPUUIDs(inst.pb))
        /\ lastErr = NoErr
        /\ Count(trace, SaveEvents) = Count(trace, {"Delete id", "Delete key", "Delete cert"})

\* a step of an install pass (the call, or the step of a payload, or the write of the
\* document) in which validation or a payload or the write fails
InstallStepFails ==
    /\ pc \in {"idle", "install"}
    /\ pc' \in {"done", "panicked"}
    /\ trace'[1].e = "installProfile"
    /\ lastErr' # NoErr

\* C13: an install pass writes the profile document, under the profile's identifier,
\* only when it is past all payloads with every SCEP payload holding a result and the
\* MDM payload enrolled; a step in which validation, a payload or the write fails ends
\* the pass (with the error as the pass's result when an error value is returned),
\* writes no profile document, and removes or changes no keychain item and no payload
\* reference, so that what earlier payloads of the pass left stays in place.
C13_PersistOnlyOnSuccess ==
    [][ /\ (pc = "install" /\ "persistProfile" \in EventNames(NewEvents)) =>
              /\ inst.i = Len(inst.orderedPayloads) + 1
              /\ \A n \in DOMAIN inst.orderedPayloads :
                     LET pr == inst.orderedPayloads[n]
                     IN  /\ IsSCEP(pr.CommonPayload) =>
                                /\ pr.StringResult # ""
                                /\ Ev("installSCEPPayload", pr.CommonPayload.PayloadUUID)
                                       \in { trace[k] : k \in DOMAIN trace }
                         /\ IsMDM(pr.CommonPayload) =>
                                /\ device.MDMProfileIdentifier = InstId
                                /\ "TokenUpdate" \in EventNames(trace)
              /\ profiles' = persistProfile(inst.pb, InstId)
              /\ lastErr' = NoErr
        /\ InstallStepFails =>
              /\ pc' = "done" => lastErr' # Panic
              /\ "persistProfile" \notin EventNames(trace')
              /\ profiles' = profiles
              /\ \A u \in DOMAIN keychain : u \in DOMAIN keychain' /\ keychain'[u] = keychain[u]
              /\ \A k \in DOMAIN refs : k \in DOMAIN refs' /\ refs'[k] = refs[k]
      ]_vars

\* an install pass has failed at the enrollment of its MDM payload: the identity and
\* the reference of the SCEP payload it completed before are in place, the device
\* names that identity, and the profile document is not stored
C13_Witness ==
    /\ pc = "done"
    /\ lastErr = "authenticate failed"
    /\ InstId \notin ListUUIDs
    /\ \E k \in DOMAIN trace :
           /\ trace[k].e = "reusing existing uuid"
           /\ trace[k].u \in DOMAIN keychain
           /\ trace[k].u = device.MDMIdentityKeychainUUID
           /\ \E r \in DOMAIN refs : r[1] = InstId /\ refs[r] = trace[k].u

\* the removal pass is at a payload, or in the store writes of a SCEP payload
RemovalAtPayload == pc \in {"remove", "removeSCEP"} /\ rm.i <= Len(rm.orderedPayloads)

\* C14: while a removal pass is at a payload, every step, also one in which the
\* payload's removal fails (Unenroll, a missing reference, a keychain load or delete),
\* keeps the pass in its loop at the same or at the next payload and leaves the
\* profile document stored; the document is removed only when the pass is past all
\* payloads, each SCEP and MDM payload of the profile having been processed.
C14_RemovalGoesOnAfterError ==
    [][ /\ RemovalAtPayload =>
              /\ pc' \in {"remove", "removeSCEP"}
              /\ rm'.p = rm.p
              /\ rm'.orderedPayloads = rm.orderedPayloads
              /\ rm'.i \in {rm.i, rm.i + 1}
              /\ profiles' = profiles
              /\ Load(rm.p.PayloadIdentifier).p = rm.p
        /\ (pc = "remove" /\ "removeProfile" \in EventNames(NewEvents)) =>
              /\ rm.i = Len(rm.orderedPayloads) + 1
              /\ Len(rm.orderedPayloads) = Len(rm.p.PayloadContent)
              /\ \A n \in DOMAIN rm.orderedPayloads :
                     LET pl == rm.orderedPayloads[n].CommonPayload
                     IN  /\ IsSCEP(pl) => Ev("removeSCEPPayload", pl.PayloadUUID)
                                              \in { trace[k] : k \in DOMAIN trace }
                         /\ IsMDM(pl) => Ev("removeMDMPayload", pl.PayloadUUID)
                                             \in { trace[k] : k \in DOMAIN trace }
      ]_vars

\* a removal pass in which Unenroll failed: the device is still enrolled, the SCEP
\* payload after the MDM payload was removed all the same, and then the document
C14_Witness ==
    /\ pc = "done"
    /\ trace[1].e = "RemoveProfile"
    /\ device.MDMProfileIdentifier = trace[1].u
    /\ trace[1].u \notin ListUUIDs
    /\ \E i, j, k \in DOMAIN trace :
           /\ i < j /\ j < k
           /\ trace[i].e = "Unenroll"
           /\ trace[j].e = "removePayloadRefString"
           /\ trace[k].e = "removeProfile"

\* a finished removal pass, called by the user, in which Unenroll succeeded (the
\* device was saved right after it)
RemovalUnenrolled ==
    /\ pc = "done"
    /\ Len(trace) >= 1
    /\ trace[1].e = "RemoveProfile"
    /\ \E k \in DOMAIN trace :
           /\ trace[k].e = "Unenroll"
           /\ k + 1 \in DOMAIN trace
           /\ trace[k + 1].e = "Device.Save"

\* C15: after a removal pass of the enrollment profile in which Unenroll succeeded,
\* both cross-references of the device are cleared: MDMProfileIdentifier is empty and
\* MDMIdentityKeychainUUID is empty.
C15_CrossReferencesCleared ==
    RemovalUnenrolled =>
        /\ device.MDMProfileIdentifier = ""
        /\ device.MDMIdentityKeychainUUID = ""

\* what the store of a device answers: Load and loadPayloadRefString for every
\* identifier, and ListUUIDs
StoreView(psID) ==
    [load |-> [id \in StoreIds |-> psLoad(psID, id)],
     list |-> psListUUIDs(psID),
     ref |-> [id \in StoreIds |-> psLoadPayloadRefString(psID, id, S1, "keychain_identity")]]

\* C16: no call of a method of the Profile Store of one device changes what the store
\* of a device with another UDID, on the same database, answers to Load, to ListUUIDs
\* and to loadPayloadRefString; so a reference saved by one device is not read by the
\* other.
C16_DeviceScopesIndependent ==
    [][ \A a \in UDIDs :
          (Len(trace') = Len(trace) + 1 /\ trace'[Len(trace')].u = a) =>
              \A b \in UDIDs \ {a} : StoreView(b)' = StoreView(b)
      ]_vars

\* the bytes that the calls of the history left stored for a profile identifier of a
\* store: those of the last persistProfile that returned no error, unless a removeProfile
\* came after it; EmptyPb for none
StoredBy(s, psID, id) ==
    LET ops == { k \in DOMAIN s : /\ s[k].e \in {"persistProfile", "removeProfile"}
                                  /\ s[k].u = psID /\ s[k].id = id /\ s[k].err = NoErr }
        last == CHOOSE k \in ops : \A j \in ops : j <= k
    IN  IF ops = {} THEN EmptyPb
        ELSE IF s[last].e = "persistProfile" THEN s[last].pb
        ELSE EmptyPb

\* C17: after any sequence of persistProfile and removeProfile calls, a persistProfile
\* of empty bytes has returned an error and counts for nothing; Load(id) returns the
\* bytes of the last successful persistProfile of id when no removeProfile of id came
\* after it, and the missing-profile error otherwise; ListUUIDs is the set of the
\* identifiers that Load succeeds for.
C17_ProfileStoreContract ==
    /\ \A k \in DOMAIN trace :
           (trace[k].e = "persistProfile" /\ trace[k].pb = EmptyPb) => trace[k].err # NoErr
    /\ \A psID \in UDIDs :
           /\ \A id \in StoreIds :
                  psLoad(psID, id) =
                      IF StoredBy(trace, psID, id) = EmptyPb
                      THEN [p |-> EmptyPb, err |-> "missing or zero-length profile"]
                      ELSE [p |-> StoredBy(trace, psID, id), err |-> NoErr]
           /\ psListUUIDs(psID) = { id \in StoreIds : psLoad(psID, id).err = NoErr }

\* a profile was saved, removed and saved again with empty bytes
C17_Witness ==
    /\ Len(trace) = 3
    /\ trace[1] = StoreEv("persistProfile", UDID, "pA", StoreDocA, "", NoErr)
    /\ trace[2] = StoreEv("removeProfile", UDID, "pA", EmptyPb, "", NoErr)
    /\ trace[3] = StoreEv("persistProfile", UDID, "pA", EmptyPb, "", "empty profile")
    /\ psLoad(UDID, "pA").err # NoErr
    /\ psListUUIDs(UDID) = {}

\* C18: keyFromSCEPProfilePayload returns, for a KeyType that is unset or "RSA", an
\* RSA key and no error, the key of KeySize bits when KeySize > 0 and of 1024 bits
\* otherwise; for every other KeyType it returns the only-RSA error and no key.
C18_KeyFromSCEPProfilePayload ==
    \A k \in DOMAIN trace :
        trace[k].e = "keyFromSCEPProfilePayload" =>
            IF trace[k].pl.KeyType \in {"", "RSA"}
            THEN /\ trace[k].err = NoErr
                 /\ trace[k].key = RSAKey(IF trace[k].pl.KeySize > 0 THEN trace[k].pl.KeySize
                                          ELSE 1024)
            ELSE /\ trace[k].err = "only RSA keys supported"
                 /\ trace[k].key = NilKey

\* the key of a payload with KeyType unset and a KeySize of zero has 1024 bits
C18_Witness ==
    /\ Len(trace) = 1
    /\ trace[1].e = "keyFromSCEPProfilePayload"
    /\ trace[1].pl.KeyType = ""
    /\ trace[1].pl.KeySize = 0
    /\ trace[1].key = RSAKey(1024)

\* the BIT STRING of an encoding: its bytes and its number of bits
ParseBitString(der) ==
    [Bytes |-> SubSeq(der, 4, Len(der)), BitLength |-> (Len(der) - 3) * 8 - der[3]]

\* bit i of a BIT STRING, counted from the most significant bit of its first byte
BitStringAt(bs, i) ==
    IF i >= bs.BitLength THEN 0 ELSE (bs.Bytes[(i \div 8) + 1] \div 2^(7 - (i % 8))) % 2

\* bit i of a mask, and the index of its highest set bit
MaskBit(m, i) == (m \div 2^i) % 2
HighestSetBit(m) == CHOOSE i \in 0..15 : 2^i <= m /\ m < 2^(i + 1)

RECURSIVE DecodeKeyUsage(_, _)
DecodeKeyUsage(bs, i) ==
    IF i >= bs.BitLength THEN 0 ELSE BitStringAt(bs, i) * 2^i + DecodeKeyUsage(bs, i + 1)

\* C19: for every key-usage mask m in 1..65535 the key usage extension has the OID
\* 2.5.29.15, is critical and holds a well-formed BIT STRING of one byte when m < 256
\* and of two bytes otherwise, whose bit i from the most significant bit of the first
\* byte is bit i of m, whose bit length is one plus the index of the highest set bit
\* of m, and whose decoding is m.
C19_KeyUsageExtension ==
    \A k \in DOMAIN trace :
        (trace[k].e = "newKeyUsageExtension" /\ trace[k].keyUsage \in 1..65535) =>
            LET m == trace[k].keyUsage
                ext == trace[k].ext
                bs == ParseBitString(ext.Value)
            IN  /\ ext.err = NoErr
                /\ ext.Id = <<2, 5, 29, 15>>
                /\ ext.Critical
                /\ ext.Value[1] = 3
                /\ ext.Value[2] = Len(ext.Value) - 2
                /\ ext.Value[3] \in 0..7
                /\ Len(bs.Bytes) = IF m < 256 THEN 1 ELSE 2
                /\ \A i \in 0..(8 * Len(bs.Bytes) - 1) :
                       (bs.Bytes[(i \div 8) + 1] \div 2^(7 - (i % 8))) % 2 = MaskBit(m, i)
                /\ \A i \in 0..15 : BitStringAt(bs, i) = MaskBit(m, i)
                /\ bs.BitLength = 1 + HighestSetBit(m)
                /\ DecodeKeyUsage(bs, 0) = m

\* the mask 416 (bits 5, 7 and 8) is encoded in two bytes with nine bits
C19_Witness ==
    /\ Len(trace) = 1
    /\ trace[1].e = "newKeyUsageExtension"
    /\ trace[1].keyUsage = 416
    /\ trace[1].ext.Value = <<3, 3, 7, 5, 128>>

\* the payloads of the pass that the IdentityCertificateUUID of the MDM payload names,
\* and the results they produced
ReferencedResults ==
    { inst.orderedPayloads[k].StringResult :
        k \in { j \in DOMAIN inst.orderedPayloads :
                  inst.orderedPayloads[j].CommonPayload.PayloadUUID
                      = InstCur.IdentityCertificateUUID } }

MissingReferenceErrs ==
    {"could not find payload UUID", "referenced identity payload has no result keychain ID"}

\* C20: when the IdentityCertificateUUID of the MDM payload names no payload of the
\* profile, or a payload without a result, the MDM step ends the pass with a missing
\* reference error, the device as it was, nothing saved and no checkin call; otherwise
\* it sets MDMIdentityKeychainUUID to the result of the named payload and saves the
\* device before it enrolls and before any checkin call.
C20_IdentityReferenceResolved ==
    [][MDMStep =>
        IF ReferencedResults \subseteq {""}
        THEN /\ lastErr' \in MissingReferenceErrs
             /\ pc' = "done"
             /\ device' = device
             /\ profiles' = profiles
             /\ \A k \in DOMAIN NewEvents :
                    ~IsCheckin(NewEvents[k]) /\ NewEvents[k].e \notin {"Device.Save", "enroll"}
        ELSE /\ lastErr' \notin MissingReferenceErrs
             /\ \E r \in ReferencedResults :
                    /\ r # ""
                    /\ device'.MDMIdentityKeychainUUID = r
                    /\ \E k \in DOMAIN NewEvents :
                           /\ NewEvents[k] = Ev("Device.Save", r)
                           /\ \A j \in DOMAIN NewEvents :
                                  (IsCheckin(NewEvents[j]) \/ NewEvents[j].e = "enroll")
                                      => k < j]_vars

\* an install pass ended at the MDM payload m5, which names the payload o1 of another
\* type, with the device as it was before the pass
C20_Witness ==
    /\ pc = "done"
    /\ lastErr = "referenced identity payload has no result keychain ID"
    /\ trace[Len(trace)] = Ev("installMDMPayload", "m5")
    /\ device.MDMIdentityKeychainUUID = ""

\* a payload of a type that is neither SCEP nor MDM
IsUnknown(pl) == ~IsSCEP(pl) /\ ~IsMDM(pl)

\* the position of a payload in a document
DocIndex(p, pl) == CHOOSE k \in DOMAIN p.PayloadContent : p.PayloadContent[k] = pl

\* an install or removal pass is at a payload of an unknown type
UnknownInstallStep == pc = "install" /\ inst.i <= Len(inst.orderedPayloads) /\ IsUnknown(InstCur)
UnknownRemovalStep == pc = "remove" /\ rm.i <= Len(rm.orderedPayloads) /\ IsUnknown(RmCur)

\* the step at a payload of an unknown type only logs it and goes on to the next payload
UnknownOnlyLogged ==
    /\ UnknownInstallStep =>
           /\ NewEvents = <<Ev("unknown payload type", InstCur.PayloadUUID)>>
           /\ inst' = [inst EXCEPT !.i = @ + 1]
    /\ UnknownRemovalStep =>
           /\ NewEvents = <<Ev("unknown payload type", RmCur.PayloadUUID)>>
           /\ rm' = [rm EXCEPT !.i = @ + 1]
    /\ (UnknownInstallStep \/ UnknownRemovalStep) =>
           /\ UNCHANGED <<profiles, refs, keychain, device, nextUUID, faults>>
           /\ lastErr' = lastErr
           /\ pc' = pc

\* in a processing order of a document, every payload of an unknown type is at the place
\* among the other payloads that it has in the document
KeepsDocumentPosition(ord, p) ==
    \A i, j \in DOMAIN ord :
        IsUnknown(ord[i].CommonPayload) =>
            (i < j <=> DocIndex(p, ord[i].CommonPayload) < DocIndex(p, ord[j].CommonPayload))

\* in a processing order of a document, the payloads of unknown types are in document
\* order among themselves, and all come before (install) or after (removal) the SCEP
\* and MDM payloads
UnknownAtTheEnd(ord, p, first) ==
    \A i, j \in DOMAIN ord :
        IsUnknown(ord[i].CommonPayload) =>
            IF IsUnknown(ord[j].CommonPayload)
            THEN i < j <=> DocIndex(p, ord[i].CommonPayload) < DocIndex(p, ord[j].CommonPayload)
            ELSE IF first THEN i < j ELSE j < i

\* C21 as stated: in install and removal passes a payload of an unknown type keeps its
\* document position relative to the other payloads in the processing order, and its
\* step writes nothing, calls nothing, sets no error and only logs the payload.
C21_UnrecognizedNotReordered ==
    [][/\ UnknownOnlyLogged
       /\ KeepsDocumentPosition(inst.orderedPayloads', inst.pb')
       /\ KeepsDocumentPosition(rm.orderedPayloads', rm.p')]_vars

\* C21, amended: the payloads of unknown types are processed in document order among
\* themselves, before every SCEP and MDM payload in an install pass and after them in
\* a removal pass; the step of such a payload writes nothing, calls nothing, sets no
\* error and only logs the payload.
C21_UnrecognizedOnlyLogged ==
    [][/\ UnknownOnlyLogged
       /\ UnknownAtTheEnd(inst.orderedPayloads', inst.pb', TRUE)
       /\ UnknownAtTheEnd(rm.orderedPayloads', rm.p', FALSE)]_vars

\* an install pass of a document that begins with the SCEP payload has logged both its
\* payloads of unknown types and is at the SCEP payload
C21_Witness ==
    /\ pc = "install"
    /\ inst.pb.PayloadContent[1] = S1
    /\ trace = <<Ev("installProfile", "pA"), Ev("unknown payload type", "o1"),
                 Ev("unknown payload type", "o2")>>
    /\ InstCur = S1

\* C22: between the passes, whenever MDMProfileIdentifier of the device is not empty,
\* the Profile Store of the device holds a profile with that identifier and that profile
\* has exactly one MDM payload.
C22_EnrollmentProfileStored ==
    (pc \in {"idle", "done"} /\ device.MDMProfileIdentifier # "") =>
        /\ device.MDMProfileIdentifier \in ListUUIDs
        /\ Load(device.MDMProfileIdentifier).err = NoErr
        /\ Len(MDMPayloads(Load(device.MDMProfileIdentifier).p)) = 1

\* the removal pass is at an MDM payload; the step runs Unenroll
MDMRemovalStep == pc = "remove" /\ rm.i <= Len(rm.orderedPayloads) /\ IsMDM(RmCur) /\ trace' # trace
UnenrollRuns == \E k \in DOMAIN NewEvents : NewEvents[k].e = "Unenroll"

\* C23: every Unenroll of a removal pass is run by a client that holds the MDM payload
\* of the profile MDMProfileIdentifier names and the identity MDMIdentityKeychainUUID
\* names, both as they are when the pass is at the MDM payload; and whenever building
\* the client from the device as it is fails, the step reports the error and runs no
\* Unenroll.
C23_UnenrollUsesRecordedEnrollment ==
    [][MDMRemovalStep =>
        /\ UnenrollRuns =>
               /\ device.MDMProfileIdentifier # ""
               /\ Load(device.MDMProfileIdentifier).err = NoErr
               /\ <<mdmClient'.MDMPayload>> = MDMPayloads(Load(device.MDMProfileIdentifier).p)
               /\ mdmClient'.Identity = device.MDMIdentityKeychainUUID
        /\ NewMDMClient(device).err # NoErr => ~UnenrollRuns]_vars

\* the error with which the checks of installProfile reject, on the device as it is,
\* profile bytes that are empty, hold more than one MDM payload, hold an MDM payload
\* while the device is enrolled and the install is not from the MDM server, or hold
\* an MDM payload with another server URL than the recorded enrollment; NoErr for
\* all other bytes
RejectionOf(pb, fromMDM) ==
    LET new == MDMPayloads(pb)
        old == MDMPayloads(Load(device.MDMProfileIdentifier).p)
    IN  IF pb = EmptyPb THEN "empty profile"
        ELSE IF ~pb.wellFormed THEN NoErr
        ELSE IF Len(new) > 1 THEN "Profile may only contain one MDM payload"
        ELSE IF Len(new) = 0 THEN NoErr
        ELSE IF ~fromMDM
        THEN IF device.MDMProfileIdentifier # ""
             THEN "device already enrolled, please unenroll first" ELSE NoErr
        ELSE IF /\ Load(device.MDMProfileIdentifier).err = NoErr
                /\ Len(old) >= 1
                /\ old[1].ServerURL # new[1].ServerURL
        THEN "MDM payload must contain same URL" ELSE NoErr

\* C24: an install whose profile bytes are empty or are rejected by validation (more
\* than one MDM payload, already enrolled, other server URL) returns that error and
\* leaves the stored profiles, the payload references, the keychain items,
\* MDMProfileIdentifier and MDMIdentityKeychainUUID as they were, also when a profile
\* with the same identifier is installed.
C24_RejectedInstallChangesNothing ==
    [][(InstallCall /\ RejectionOf(inst'.pb, inst'.fromMDM) # NoErr) =>
           /\ lastErr' = RejectionOf(inst'.pb, inst'.fromMDM)
           /\ pc' = "done"
           /\ ListUUIDs' = ListUUIDs
           /\ UNCHANGED <<profiles, refs, keychain, device>>]_vars

\* the MDM server's install of a profile with another server URL was rejected while a
\* profile with the same identifier is installed
C24_Witness ==
    /\ pc = "done"
    /\ lastErr = "MDM payload must contain same URL"
    /\ inst.fromMDM
    /\ InstId \in ListUUIDs
    /\ device.MDMProfileIdentifier = InstId

\* a RemoveProfile of the profile whose install is remembered has returned without an
\* error, the removal of each of its payloads having run to its end: the reference of
\* every SCEP payload was removed, and every Unenroll was followed by the save of the
\* device
CleanRemovalAfterInstall ==
    /\ pc = "done"
    /\ lastErr = NoErr
    /\ before.installed
    /\ trace[1] = Ev("RemoveProfile", before.id)
    /\ trace[Len(trace)] = Ev("removeProfile", before.id)
    /\ Count(trace, {"removeSCEPPayload"}) = Count(trace, {"removePayloadRefString"})
    /\ Count(trace, {"removeMDMPayload"}) = Count(trace, {"Unenroll"})
    /\ \A k \in DOMAIN trace :
           trace[k].e = "Unenroll" => trace[k + 1] = Ev("Device.Save", "")

\* C25: when a profile that was not installed has been installed without an error and
\* is then removed, no removal of a payload failing, the keychain items, the payload
\* references and the installed profile identifiers are what they were before the
\* install.
C25_InstallRemoveRoundTrip ==
    CleanRemovalAfterInstall =>
        /\ keychain = before.keychain
        /\ refs = before.refs
        /\ ListUUIDs = before.ids

====
